---- MODULE Spec2Model ----
(***************************************************************************)
(* single-button-clock.c: a 12-hour clock for an ATmega328P.  The          *)
(* foreground (main) first runs the input protocol set_clock/set_var with  *)
(* interrupts disabled, then arms Timer/Counter 1 in CTC mode and polls    *)
(* display_flag; the interrupt handler TIMER1_COMPA_vect runs every 1/50 s *)
(* and advances ticks, tod_secs, tod_mins, tod_hours.                      *)
(*                                                                         *)
(* Time.  One _delay_ms(20) of the foreground lasts exactly one period of  *)
(* the compare-match interrupt (OCR1A = 20000 counts at F_CPU/8 = 20 ms),  *)
(* so once interrupts are enabled every delay unit of the foreground       *)
(* contains one handler invocation.  All other foreground instructions     *)
(* take microseconds: the handler may preempt between any two of them, but *)
(* at most MaxSlip invocations fall outside delay units during one         *)
(* presentation.  While the foreground polls a clear flag the handler      *)
(* fires freely.                                                           *)
(***************************************************************************)
EXTENDS Naturals, Sequences, FiniteSets

(* ---- program constants ---- *)
UINT8 == 256
TICKS_PER_SEC == 50
SECS_PER_MIN == 60
MINS_PER_HOUR == 60
HOURS_WRAP == 13
HOURS_MAX == 12
MINS_MAX == 59
TIMEOUT == 23460
SHORT_DELAY_LOOPS == 10
LONG_DELAY_LOOPS == 3
ARPEGGIO_NOTES == 4
FLASH_INVALID == 3
FlashHoursAsMins == 1 + 1

FLASH_HOURS_OK == 1
FLASH_MINS_OK == 2

(* ---- bounds of the model ---- *)
MaxPresses == 300
MaxSlip == 1
MinuteHorizon == 3001
MaxCycles == 1
MaxInvocations == 2
LivePresses == 61

VARIABLES
  pc,            \* position of the foreground (main and its callees)
  field,         \* set_var's argument: "hours" (&tod_hours) or "mins" (&tod_mins)
  lf_ret,        \* where led_flash returns to
  lf_count,      \* led_flash's parameter count
  lf_i,          \* led_flash's loop variable i
  arp_i,         \* notes of uart_play_arpeggio already played
  dly,           \* _delay_ms(20) units left in the delay in progress
  display_flag, ticks, tod_secs, tod_mins, tod_hours,
  TCNT1,         \* Timer/Counter 1 as read by set_var (stopwatch mode)
  timer_mode,    \* TCCR1B: "off", "stopwatch" (clk/1024, normal), "ctc" (clk/8, CTC)
  ocie1a,        \* TIMSK1.OCIE1A
  sreg_i,        \* global interrupt enable
  led,           \* TRUE when the LED is lit
  button,        \* "up" (pin high) or "down" (pin low)
  slip,          \* handler invocations outside delay units in this presentation
  presses,       \* history: presses confirmed in the current/last attempt (not reduced mod 256)
  hcount,        \* history: presses of the accepted hours attempt
  mcount,        \* history: presses of the accepted minutes attempt
  rejected,      \* history: an attempt for the current field has been rejected
  fb_log,        \* history: led_flash counts emitted since the last attempt ended
  nfb,           \* history: nfb[k], k = 1, 2: led_flash(k) calls of set_clock
  pending,       \* history: the handler set display_flag and no presentation has started since
  presented,     \* history: <<hours, mins>> blinked by the presentation in progress
  nticks,        \* history: handler invocations counted (counting specifications only)
  nsets,         \* history: executions of display_flag = 1 counted
  seed,          \* history: <<tod_hours, tod_mins>> when the interrupt was armed
  isr_pc         \* position of the handler: "idle", or the line it is about to execute

clockvars == <<display_flag, ticks, tod_secs, tod_mins, tod_hours>>
hwvars    == <<TCNT1, timer_mode, ocie1a, sreg_i>>
ledvars   == <<lf_ret, lf_count, lf_i, dly, led>>
inputhist == <<presses, hcount, mcount, rejected, fb_log, nfb>>
counthist == <<nticks, nsets, seed, isr_pc>>
vars == <<pc, field, lf_ret, lf_count, lf_i, arp_i, dly,
          display_flag, ticks, tod_secs, tod_mins, tod_hours,
          TCNT1, timer_mode, ocie1a, sreg_i, led, button, slip,
          presses, hcount, mcount, rejected, fb_log, nfb, pending, presented,
          nticks, nsets, seed, isr_pc>>

(* ---- the interrupt handler, as a function of the shared variables ---- *)
Clock == [ticks |-> ticks, tod_secs |-> tod_secs, tod_mins |-> tod_mins,
          tod_hours |-> tod_hours, display_flag |-> display_flag]

Inc8(x) == (x + 1) % UINT8

TicksCarryOffByOne(t) == Inc8(t) > TICKS_PER_SEC

(* ++ticks >= 50 *)
TicksCarry(t) == Inc8(t) >= TICKS_PER_SEC

SecsCarryOffByOne(x) == Inc8(x) > SECS_PER_MIN

(* a minute of two seconds *)
SecsCarryEarly(x) == Inc8(x) >= 2

(* ++tod_secs >= 60 *)
SecsCarry(x) == Inc8(x) >= SECS_PER_MIN

MinsCarryOffByOne(m) == Inc8(m) > MINS_PER_HOUR

(* ++tod_mins >= 60 *)
MinsCarry(m) == Inc8(m) >= MINS_PER_HOUR

(* ++tod_hours >= 13 -> 1 *)
IncHours(h) == IF Inc8(h) >= HOURS_WRAP THEN 1 ELSE Inc8(h)

(* the handler with display_flag = 1 one level up: set on every second *)
FlagEverySecond(s) ==
  IF TicksCarry(s.ticks)
  THEN IF SecsCarry(s.tod_secs)
       THEN IF MinsCarry(s.tod_mins)
            THEN [ticks |-> 0, tod_secs |-> 0, display_flag |-> 1, tod_mins |-> 0,
                  tod_hours |-> IncHours(s.tod_hours), wrote |-> TRUE]
            ELSE [ticks |-> 0, tod_secs |-> 0, display_flag |-> 1,
                  tod_mins |-> Inc8(s.tod_mins),
                  tod_hours |-> s.tod_hours, wrote |-> TRUE]
       ELSE [ticks |-> 0, tod_secs |-> Inc8(s.tod_secs), display_flag |-> 1,
             tod_mins |-> s.tod_mins, tod_hours |-> s.tod_hours, wrote |-> TRUE]
  ELSE [ticks |-> Inc8(s.ticks), tod_secs |-> s.tod_secs, display_flag |-> s.display_flag,
        tod_mins |-> s.tod_mins, tod_hours |-> s.tod_hours, wrote |-> FALSE]

(* the result carries wrote: whether this invocation executed display_flag = 1 *)
TIMER1_COMPA_vect(s) ==
  IF TicksCarry(s.ticks)
  THEN IF SecsCarry(s.tod_secs)
       THEN IF MinsCarry(s.tod_mins)
            THEN [ticks |-> 0, tod_secs |-> 0, display_flag |-> 1, tod_mins |-> 0,
                  tod_hours |-> IncHours(s.tod_hours), wrote |-> TRUE]
            ELSE [ticks |-> 0, tod_secs |-> 0, display_flag |-> 1,
                  tod_mins |-> Inc8(s.tod_mins),
                  tod_hours |-> s.tod_hours, wrote |-> TRUE]
       ELSE [ticks |-> 0, tod_secs |-> Inc8(s.tod_secs), display_flag |-> s.display_flag,
             tod_mins |-> s.tod_mins, tod_hours |-> s.tod_hours, wrote |-> FALSE]
  ELSE [ticks |-> Inc8(s.ticks), tod_secs |-> s.tod_secs, display_flag |-> s.display_flag,
        tod_mins |-> s.tod_mins, tod_hours |-> s.tod_hours, wrote |-> FALSE]

(* the hardware raises the interrupt: CTC mode, OCIE1A set, I flag set *)
IntEnabled == timer_mode = "ctc" /\ ocie1a /\ sreg_i

(* one invocation of the handler *)
Interrupt ==
  LET r == TIMER1_COMPA_vect(Clock) IN
  /\ ticks' = r.ticks
  /\ tod_secs' = r.tod_secs
  /\ tod_mins' = r.tod_mins
  /\ tod_hours' = r.tod_hours
  /\ display_flag' = r.display_flag
  /\ pending' = (pending \/ r.wrote)

(* bookkeeping of the counting specifications: at most H invocations *)
Counted(H) ==
  /\ nticks < H
  /\ nticks' = nticks + 1
  /\ nsets' = nsets + (IF TIMER1_COMPA_vect(Clock).wrote THEN 1 ELSE 0)
  /\ UNCHANGED <<seed, isr_pc>>

Uncounted == UNCHANGED counthist


(* ---- the user and the stopwatch hardware (input protocol only) ---- *)

(* positions where the button pin is still going to be read *)
InProtocol == ~sreg_i /\ pc \notin {"main_init_timer", "main_init_uart", "main_sei"}

StopwatchSamples == {0, 1, TIMEOUT - 1, TIMEOUT}

Press ==
  /\ InProtocol
  /\ button = "up"
  /\ presses < MaxPresses
  /\ button' = "down"
  /\ UNCHANGED <<pc, field, arp_i, slip, pending, presented>>
  /\ UNCHANGED <<clockvars, hwvars, ledvars, inputhist, counthist>>

Release ==
  /\ InProtocol
  /\ button = "down"
  /\ button' = "up"
  /\ UNCHANGED <<pc, field, arp_i, slip, pending, presented>>
  /\ UNCHANGED <<clockvars, hwvars, ledvars, inputhist, counthist>>

(* TCNT1 counts up at clk/1024 while set_var polls it *)
StopwatchAdvance ==
  /\ timer_mode = "stopwatch"
  /\ pc \in {"sv_loop", "sv_btn"}
  /\ TCNT1 < TIMEOUT
  /\ \E v \in StopwatchSamples : v > TCNT1 /\ TCNT1' = v
  /\ UNCHANGED <<pc, field, arp_i, slip, pending, presented, button>>
  /\ UNCHANGED <<clockvars, timer_mode, ocie1a, sreg_i, ledvars, inputhist, counthist>>

(* ---- set_var ---- *)

\* ++ applied to *var, a volatile uint8_t
IncVar ==
  /\ tod_hours' = IF field = "hours" THEN Inc8(tod_hours) ELSE tod_hours
  /\ tod_mins' = IF field = "mins" THEN Inc8(tod_mins) ELSE tod_mins
  /\ presses' = presses + 1
  /\ UNCHANGED <<display_flag, ticks, tod_secs>>

CallSetVar(f) ==
  /\ field' = f
  /\ pc' = "sv_press"
  /\ presses' = 0

(* loop_until_bit_is_clear(BUTTON_PIN, BUTTON); _delay_ms(DEBOUNCE_TIME) *)
sv_wait_press ==
  /\ pc = "sv_press"
  /\ button = "down"
  /\ pc' = "sv_release"
  /\ UNCHANGED <<field, arp_i, slip, pending, presented, button>>
  /\ UNCHANGED <<clockvars, hwvars, ledvars, inputhist, counthist>>

\* loop_until_bit_is_set; ++*var; TCCR1B = clk/1024; TCNT1 = 0
sv_first_press ==
  /\ pc = "sv_release"
  /\ button = "up"
  /\ IncVar
  /\ timer_mode' = "stopwatch"
  /\ TCNT1' = 0
  /\ pc' = "sv_loop"
  /\ UNCHANGED <<field, arp_i, slip, pending, presented, button>>
  /\ UNCHANGED <<ocie1a, sreg_i, ledvars, hcount, mcount, rejected, fb_log, nfb, counthist>>

ReturnFromSetVar == IF field = "hours" THEN "sc_check_hours" ELSE "sc_check_mins"

(* while (TCNT1 < 23460) *)
sv_loop_test ==
  /\ pc = "sv_loop"
  /\ IF TCNT1 < TIMEOUT
     THEN pc' = "sv_btn" /\ UNCHANGED fb_log
     ELSE pc' = ReturnFromSetVar /\ fb_log' = <<>>
  /\ UNCHANGED <<field, arp_i, slip, pending, presented, button>>
  /\ UNCHANGED <<clockvars, hwvars, ledvars, presses, hcount, mcount, rejected, nfb, counthist>>

(* if bit_is_clear(BUTTON_PIN, BUTTON) *)
sv_button_test ==
  /\ pc = "sv_btn"
  /\ pc' = IF button = "down" THEN "sv_release2" ELSE "sv_loop"
  /\ UNCHANGED <<field, arp_i, slip, pending, presented, button>>
  /\ UNCHANGED <<clockvars, hwvars, ledvars, inputhist, counthist>>

\* loop_until_bit_is_set; ++*var; TCNT1 = 0
sv_next_press ==
  /\ pc = "sv_release2"
  /\ button = "up"
  /\ IncVar
  /\ TCNT1' = 0
  /\ pc' = "sv_loop"
  /\ UNCHANGED <<field, arp_i, slip, pending, presented, button>>
  /\ UNCHANGED <<timer_mode, ocie1a, sreg_i, ledvars, hcount, mcount, rejected, fb_log, nfb, counthist>>

(* ---- led_flash ---- *)

ShortDelay == SHORT_DELAY_LOOPS
LongDelay == LONG_DELAY_LOOPS * SHORT_DELAY_LOOPS

CallLedFlash(count, ret) ==
  /\ lf_count' = count
  /\ lf_i' = 0
  /\ lf_ret' = ret
  /\ pc' = "lf_test"

(* for (...; i<count; ...) { LED on; led_short_delay();  -- or return, *)
(* where the parameter and the local cease to exist                    *)
lf_test ==
  /\ pc = "lf_test"
  /\ IF lf_i < lf_count
     THEN /\ led' = TRUE /\ dly' = ShortDelay /\ pc' = "lf_on_wait"
          /\ UNCHANGED <<lf_ret, lf_count, lf_i>>
     ELSE /\ pc' = lf_ret
          /\ lf_ret' = "none" /\ lf_count' = 0 /\ lf_i' = 0
          /\ UNCHANGED <<led, dly>>
  /\ UNCHANGED <<field, arp_i, slip, pending, presented, button>>
  /\ UNCHANGED <<clockvars, hwvars, inputhist, counthist>>

(* LED off; led_short_delay(); *)
lf_off ==
  /\ pc = "lf_on_wait"
  /\ dly = 0
  /\ led' = FALSE
  /\ dly' = ShortDelay
  /\ pc' = "lf_off_wait"
  /\ UNCHANGED <<field, arp_i, slip, pending, presented, button, lf_ret, lf_count, lf_i>>
  /\ UNCHANGED <<clockvars, hwvars, inputhist, counthist>>

(* i++ *)
lf_next ==
  /\ pc = "lf_off_wait"
  /\ dly = 0
  /\ lf_i' = Inc8(lf_i)
  /\ pc' = "lf_test"
  /\ UNCHANGED <<field, arp_i, slip, pending, presented, button, lf_ret, lf_count, dly, led>>
  /\ UNCHANGED <<clockvars, hwvars, inputhist, counthist>>

(* ---- set_clock ---- *)

(* led_flash called by set_clock: the feedback events *)
Feedback(count, ret) ==
  /\ CallLedFlash(count, ret)
  /\ fb_log' = Append(fb_log, count)
  /\ nfb' = [k \in DOMAIN nfb |-> IF k = count THEN nfb[k] + 1 ELSE nfb[k]]

init_ports ==
  /\ pc = "main_init_ports"
  /\ led' = FALSE
  /\ pc' = "sc_hours"
  /\ UNCHANGED <<field, arp_i, slip, pending, presented, button, lf_ret, lf_count, lf_i, dly>>
  /\ UNCHANGED <<clockvars, hwvars, inputhist, counthist>>

(* set_var(&tod_hours); *)
sc_hours ==
  /\ pc = "sc_hours"
  /\ CallSetVar("hours")
  /\ UNCHANGED <<arp_i, slip, pending, presented, button>>
  /\ rejected' = FALSE
  /\ UNCHANGED <<clockvars, hwvars, ledvars, hcount, mcount, fb_log, nfb, counthist>>

(* while (tod_hours > 12) *)
sc_check_hours ==
  /\ pc = "sc_check_hours"
  /\ IF tod_hours > HOURS_MAX
     THEN pc' = "sc_bad_hours" /\ UNCHANGED hcount
     ELSE pc' = "sc_ok_hours" /\ hcount' = presses
  /\ UNCHANGED <<field, arp_i, slip, pending, presented, button>>
  /\ UNCHANGED <<clockvars, hwvars, ledvars, presses, mcount, rejected, fb_log, nfb, counthist>>

(* led_flash(3); *)
sc_bad_hours ==
  /\ pc = "sc_bad_hours"
  /\ Feedback(FLASH_INVALID, "sc_retry_hours")
  /\ UNCHANGED <<field, arp_i, slip, pending, presented, button, dly, led>>
  /\ UNCHANGED <<clockvars, hwvars, presses, hcount, mcount, rejected, counthist>>

(* tod_hours = 0; set_var(&tod_hours); *)
sc_retry_hours ==
  /\ pc = "sc_retry_hours"
  /\ tod_hours' = 0
  /\ CallSetVar("hours")
  /\ UNCHANGED <<arp_i, slip, pending, presented, button>>
  /\ UNCHANGED <<display_flag, ticks, tod_secs, tod_mins>>
  /\ rejected' = TRUE
  /\ UNCHANGED <<hwvars, ledvars, hcount, mcount, fb_log, nfb, counthist>>

(* led_flash(1); *)
sc_ok_hours ==
  /\ pc = "sc_ok_hours"
  /\ Feedback(FLASH_HOURS_OK, "sc_mins")
  /\ UNCHANGED <<field, arp_i, slip, pending, presented, button, dly, led>>
  /\ UNCHANGED <<clockvars, hwvars, presses, hcount, mcount, rejected, counthist>>

(* set_var(&tod_mins); *)
sc_mins ==
  /\ pc = "sc_mins"
  /\ CallSetVar("mins")
  /\ UNCHANGED <<arp_i, slip, pending, presented, button>>
  /\ rejected' = FALSE
  /\ UNCHANGED <<clockvars, hwvars, ledvars, hcount, mcount, fb_log, nfb, counthist>>

(* while (tod_mins > 59) *)
sc_check_mins ==
  /\ pc = "sc_check_mins"
  /\ IF tod_mins > MINS_MAX
     THEN pc' = "sc_bad_mins" /\ UNCHANGED mcount
     ELSE pc' = "sc_ok_mins" /\ mcount' = presses
  /\ UNCHANGED <<field, arp_i, slip, pending, presented, button>>
  /\ UNCHANGED <<clockvars, hwvars, ledvars, presses, hcount, rejected, fb_log, nfb, counthist>>

(* led_flash(3); *)
sc_bad_mins ==
  /\ pc = "sc_bad_mins"
  /\ Feedback(FLASH_INVALID, "sc_retry_mins")
  /\ UNCHANGED <<field, arp_i, slip, pending, presented, button, dly, led>>
  /\ UNCHANGED <<clockvars, hwvars, presses, hcount, mcount, rejected, counthist>>

(* tod_mins = 0; set_var(&tod_mins); *)
sc_retry_mins ==
  /\ pc = "sc_retry_mins"
  /\ tod_mins' = 0
  /\ CallSetVar("mins")
  /\ UNCHANGED <<arp_i, slip, pending, presented, button>>
  /\ UNCHANGED <<display_flag, ticks, tod_secs, tod_hours>>
  /\ rejected' = TRUE
  /\ UNCHANGED <<hwvars, ledvars, hcount, mcount, fb_log, nfb, counthist>>

(* led_flash(2); return; *)
sc_ok_mins ==
  /\ pc = "sc_ok_mins"
  /\ Feedback(FLASH_MINS_OK, "main_init_timer")
  /\ UNCHANGED <<field, arp_i, slip, pending, presented, button, dly, led>>
  /\ UNCHANGED <<clockvars, hwvars, presses, hcount, mcount, rejected, counthist>>


(* ---- main after set_clock ---- *)

(* init_timer with sei() where the code has cli() *)
init_timer_sei ==
  /\ pc = "main_init_timer"
  /\ timer_mode' = "ctc"
  /\ sreg_i' = TRUE
  /\ ocie1a' = TRUE
  /\ TCNT1' = 0
  /\ pc' = "main_init_uart"
  /\ UNCHANGED <<field, arp_i, slip, pending, presented, button>>
  /\ UNCHANGED <<clockvars, ledvars, inputhist, counthist>>

(* TCCR1B = WGM12 | CS11; cli(); TIMSK1 |= OCIE1A; OCR1A = 20000; TCNT1 = 0 *)
init_timer ==
  /\ pc = "main_init_timer"
  /\ timer_mode' = "ctc"
  /\ sreg_i' = FALSE
  /\ ocie1a' = TRUE
  /\ TCNT1' = 0
  /\ pc' = "main_init_uart"
  /\ UNCHANGED <<field, arp_i, slip, pending, presented, button>>
  /\ UNCHANGED <<clockvars, ledvars, inputhist, counthist>>

init_uart ==
  /\ pc = "main_init_uart"
  /\ pc' = "main_sei"
  /\ UNCHANGED <<field, arp_i, slip, pending, presented, button>>
  /\ UNCHANGED <<clockvars, hwvars, ledvars, inputhist, counthist>>

(* sei(); the histories of the input protocol and the pin level are no   *)
(* longer tracked once the protocol is over                              *)
sei ==
  /\ pc = "main_sei"
  /\ sreg_i' = TRUE
  /\ pc' = "main_poll"
  /\ presses' = 0 /\ hcount' = 0 /\ mcount' = 0 /\ rejected' = FALSE
  /\ button' = "up"
  /\ UNCHANGED <<field, arp_i, slip, pending, presented, fb_log, nfb>>
  /\ UNCHANGED <<clockvars, TCNT1, timer_mode, ocie1a, ledvars, counthist>>

(* if (display_flag) *)
main_poll ==
  /\ pc = "main_poll"
  /\ IF display_flag # 0
     THEN pc' = "arp_note" /\ arp_i' = 0 /\ pending' = FALSE
     ELSE UNCHANGED <<pc, arp_i, pending>>
  /\ UNCHANGED <<field, slip, presented, button>>
  /\ UNCHANGED <<clockvars, hwvars, ledvars, inputhist, counthist>>

(* uart_play_note: note on; led_short_delay(); *)
arp_note ==
  /\ pc = "arp_note"
  /\ dly' = ShortDelay
  /\ pc' = "arp_on_wait"
  /\ UNCHANGED <<field, arp_i, slip, pending, presented, button, lf_ret, lf_count, lf_i, led>>
  /\ UNCHANGED <<clockvars, hwvars, inputhist, counthist>>

(* note off; led_long_delay(); *)
arp_note_off ==
  /\ pc = "arp_on_wait"
  /\ dly = 0
  /\ dly' = LongDelay
  /\ pc' = "arp_off_wait"
  /\ UNCHANGED <<field, arp_i, slip, pending, presented, button, lf_ret, lf_count, lf_i, led>>
  /\ UNCHANGED <<clockvars, hwvars, inputhist, counthist>>

(* next note of the arpeggio, or return to main *)
arp_next ==
  /\ pc = "arp_off_wait"
  /\ dly = 0
  /\ IF arp_i + 1 < ARPEGGIO_NOTES
     THEN arp_i' = arp_i + 1 /\ pc' = "arp_note"
     ELSE arp_i' = 0 /\ pc' = "main_flash_hours"
  /\ UNCHANGED <<field, slip, pending, presented, button>>
  /\ UNCHANGED <<clockvars, hwvars, ledvars, inputhist, counthist>>

(* led_flash(tod_hours); *)
main_flash_hours ==
  /\ pc = "main_flash_hours"
  /\ CallLedFlash(tod_hours, "main_pause")
  /\ presented' = <<tod_hours>>
  /\ UNCHANGED <<field, arp_i, slip, pending, button, dly, led>>
  /\ UNCHANGED <<clockvars, hwvars, inputhist, counthist>>

(* the pause with the flag cleared early, before the minutes are blinked *)
main_pause_clears ==
  /\ pc = "main_pause"
  /\ dly' = LongDelay
  /\ pc' = "main_pause_wait"
  /\ display_flag' = 0
  /\ UNCHANGED <<field, arp_i, slip, pending, presented, button, lf_ret, lf_count, lf_i, led>>
  /\ UNCHANGED <<ticks, tod_secs, tod_mins, tod_hours>>
  /\ UNCHANGED <<hwvars, inputhist, counthist>>

(* led_long_delay(); *)
main_pause ==
  /\ pc = "main_pause"
  /\ dly' = LongDelay
  /\ pc' = "main_pause_wait"
  /\ UNCHANGED <<field, arp_i, slip, pending, presented, button, lf_ret, lf_count, lf_i, led>>
  /\ UNCHANGED <<clockvars, hwvars, inputhist, counthist>>

(* led_flash(tod_mins); *)
main_flash_mins ==
  /\ pc = "main_pause_wait"
  /\ dly = 0
  /\ CallLedFlash(tod_mins, "main_clear")
  /\ presented' = Append(presented, tod_mins)
  /\ UNCHANGED <<field, arp_i, slip, pending, button, dly, led>>
  /\ UNCHANGED <<clockvars, hwvars, inputhist, counthist>>

(* the end of a presentation without display_flag = 0 *)
main_clear_keeps_flag ==
  /\ pc = "main_clear"
  /\ pc' = "main_poll"
  /\ slip' = 0
  /\ presented' = <<>>
  /\ UNCHANGED <<field, arp_i, pending, button>>
  /\ UNCHANGED <<clockvars, hwvars, ledvars, inputhist, counthist>>

(* the end of a presentation restarting the seconds as well *)
main_clear_resets_secs ==
  /\ pc = "main_clear"
  /\ display_flag' = 0
  /\ tod_secs' = 0
  /\ pc' = "main_poll"
  /\ slip' = 0
  /\ presented' = <<>>
  /\ UNCHANGED <<field, arp_i, pending, button>>
  /\ UNCHANGED <<ticks, tod_mins, tod_hours>>
  /\ UNCHANGED <<hwvars, ledvars, inputhist, counthist>>

(* display_flag = 0; *)
main_clear ==
  /\ pc = "main_clear"
  /\ display_flag' = 0
  /\ pc' = "main_poll"
  /\ slip' = 0
  /\ presented' = <<>>
  /\ UNCHANGED <<field, arp_i, pending, button>>
  /\ UNCHANGED <<ticks, tod_secs, tod_mins, tod_hours>>
  /\ UNCHANGED <<hwvars, ledvars, inputhist, counthist>>

(* ---- time ---- *)

Delaying == dly > 0

(* the foreground is between two polls of a clear flag *)
Idle == pc = "main_poll" /\ display_flag = 0

(* one _delay_ms(20): with the interrupt armed it contains one invocation *)
DelayUnit(count) ==
  /\ Delaying
  /\ dly' = dly - 1
  /\ IF IntEnabled
     THEN Interrupt /\ count
     ELSE UNCHANGED <<clockvars, pending, counthist>>
  /\ UNCHANGED <<pc, field, arp_i, slip, presented, button, lf_ret, lf_count, lf_i, led>>
  /\ UNCHANGED <<hwvars, inputhist>>

(* an invocation outside the delays: between two polls, or preempting the *)
(* foreground between two instructions                                    *)
Tick(count) ==
  /\ IntEnabled
  /\ ~Delaying
  /\ IF Idle THEN UNCHANGED slip ELSE slip < MaxSlip /\ slip' = slip + 1
  /\ Interrupt
  /\ count
  /\ UNCHANGED <<pc, field, arp_i, presented, button>>
  /\ UNCHANGED <<hwvars, ledvars, inputhist>>

delay_ms == DelayUnit(Uncounted)
timer_interrupt == Tick(Uncounted)

(* ---- the program from reset ---- *)

Init ==
  /\ pc = "main_init_ports"
  /\ field = "hours"
  /\ lf_ret = "none" /\ lf_count = 0 /\ lf_i = 0 /\ arp_i = 0 /\ dly = 0
  /\ display_flag = 0 /\ ticks = 0 /\ tod_secs = 0 /\ tod_mins = 0 /\ tod_hours = 0
  /\ TCNT1 = 0 /\ timer_mode = "off" /\ ocie1a = FALSE /\ sreg_i = FALSE
  /\ led = FALSE
  /\ button \in {"up", "down"}
  /\ slip = 0
  /\ presses = 0 /\ hcount = 0 /\ mcount = 0 /\ rejected = FALSE
  /\ fb_log = <<>>
  /\ nfb = [k \in {1, 2} |-> 0]
  /\ pending = FALSE
  /\ presented = <<>>
  /\ nticks = 0 /\ nsets = 0 /\ seed = <<0, 0>>
  /\ isr_pc = "idle"

Next ==
  \/ Press \/ Release \/ StopwatchAdvance
  \/ init_ports
  \/ sc_hours \/ sc_check_hours \/ sc_bad_hours \/ sc_retry_hours \/ sc_ok_hours
  \/ sc_mins \/ sc_check_mins \/ sc_bad_mins \/ sc_retry_mins \/ sc_ok_mins
  \/ sv_wait_press \/ sv_first_press \/ sv_loop_test \/ sv_button_test \/ sv_next_press
  \/ lf_test \/ lf_off \/ lf_next
  \/ init_timer \/ init_uart \/ sei
  \/ main_poll \/ arp_note \/ arp_note_off \/ arp_next
  \/ main_flash_hours \/ main_pause \/ main_flash_mins \/ main_clear
  \/ delay_ms \/ timer_interrupt

Spec == Init /\ [][Next]_vars


(* the input protocol alone: main up to and including sei() *)
NextProtocol ==
  \/ Press \/ Release \/ StopwatchAdvance
  \/ init_ports
  \/ sc_hours \/ sc_check_hours \/ sc_bad_hours \/ sc_retry_hours \/ sc_ok_hours
  \/ sc_mins \/ sc_check_mins \/ sc_bad_mins \/ sc_retry_mins \/ sc_ok_mins
  \/ sv_wait_press \/ sv_first_press \/ sv_loop_test \/ sv_button_test \/ sv_next_press
  \/ lf_test \/ lf_off \/ lf_next
  \/ delay_ms
  \/ init_timer \/ init_uart \/ sei

SpecProtocol == Init /\ [][NextProtocol]_vars

(* ---- the handler alone, from the state sei() leaves ---- *)

(* the state right after sei(), for the seed <<h, m>> that set_clock accepted *)
Armed(h, m) ==
  /\ pc = "main_poll"
  /\ field = "mins"
  /\ lf_ret = "none" /\ lf_count = 0 /\ lf_i = 0 /\ arp_i = 0 /\ dly = 0
  /\ display_flag = 0 /\ ticks = 0 /\ tod_secs = 0 /\ tod_mins = m /\ tod_hours = h
  /\ TCNT1 = 0 /\ timer_mode = "ctc" /\ ocie1a = TRUE /\ sreg_i = TRUE
  /\ led = FALSE
  /\ button = "up"
  /\ slip = 0
  /\ presses = 0 /\ hcount = 0 /\ mcount = 0 /\ rejected = FALSE
  /\ fb_log = <<2>>
  /\ nfb = [k \in {1, 2} |-> 1]
  /\ pending = FALSE
  /\ presented = <<>>
  /\ isr_pc = "idle"

(* the seeds set_clock accepts: tod_hours <= 12 and tod_mins <= 59 *)
SeedHours == 0..HOURS_MAX
SeedMins == 0..MINS_MAX

InitSeeded ==
  /\ \E h \in SeedHours, m \in SeedMins : Armed(h, m) /\ seed = <<h, m>>
  /\ nticks = 0 /\ nsets = 0

(* one invocation, counted *)
tick_invocation ==
  /\ IntEnabled
  /\ Interrupt
  /\ Counted(MinuteHorizon)
  /\ UNCHANGED <<pc, field, arp_i, slip, presented, button>>
  /\ UNCHANGED <<hwvars, ledvars, inputhist>>

SpecMinute == InitSeeded /\ [][tick_invocation]_vars

(* n consecutive invocations; sets counts the executions of display_flag = 1 *)
RECURSIVE Invocations(_, _)
Invocations(c, n) ==
  IF n = 0 THEN c
  ELSE IF n = 1
       THEN LET r == TIMER1_COMPA_vect(c.s)
            IN  [s |-> r, sets |-> c.sets + (IF r.wrote THEN 1 ELSE 0)]
       ELSE LET half == Invocations(c, n \div 2)
            IN  IF half.sets >= 0 THEN Invocations(half, n - (n \div 2)) ELSE c

MinuteTicks == TICKS_PER_SEC * SECS_PER_MIN
CycleTicks == MinuteTicks * MINS_PER_HOUR * HOURS_MAX

(* the seeds followed through whole cycles *)
CycleSeeds == {<<11, 7>>, <<0, 59>>}

InitCycle ==
  /\ \E sd \in CycleSeeds : Armed(sd[1], sd[2]) /\ seed = sd
  /\ nticks = 0 /\ nsets = 0

(* one minute of invocations (MinuteTicks of them) in one step *)
minute_of_invocations ==
  /\ IntEnabled
  /\ nticks < MaxCycles * CycleTicks
  /\ LET c == Invocations([s |-> Clock, sets |-> 0], MinuteTicks) IN
       /\ ticks' = c.s.ticks
       /\ tod_secs' = c.s.tod_secs
       /\ tod_mins' = c.s.tod_mins
       /\ tod_hours' = c.s.tod_hours
       /\ display_flag' = c.s.display_flag
       /\ pending' = (pending \/ c.sets > 0)
       /\ nsets' = nsets + c.sets
  /\ nticks' = nticks + MinuteTicks
  /\ UNCHANGED <<pc, field, arp_i, slip, presented, button, seed, isr_pc>>
  /\ UNCHANGED <<hwvars, ledvars, inputhist>>

SpecCycle == InitCycle /\ [][minute_of_invocations]_vars

(* ---- the handler statement by statement ---- *)

(* the clock at h:m:sc.t while main polls a clear flag, seeded with <<h, m>> *)
Polling(h, m, sc, t) ==
  /\ pc = "main_poll"
  /\ field = "mins"
  /\ lf_ret = "none" /\ lf_count = 0 /\ lf_i = 0 /\ arp_i = 0 /\ dly = 0
  /\ display_flag = 0 /\ ticks = t /\ tod_secs = sc /\ tod_mins = m /\ tod_hours = h
  /\ TCNT1 = 0 /\ timer_mode = "ctc" /\ ocie1a = TRUE /\ sreg_i = TRUE
  /\ led = FALSE
  /\ button = "up"
  /\ slip = 0
  /\ presses = 0 /\ hcount = 0 /\ mcount = 0 /\ rejected = FALSE
  /\ fb_log = <<2>>
  /\ nfb = [k \in {1, 2} |-> 1]
  /\ pending = FALSE
  /\ presented = <<>>
  /\ isr_pc = "idle"
  /\ seed = <<h, m>>
  /\ nticks = 0 /\ nsets = 0

(* the last second of the first minute after arming *)
InitHandler ==
  \E h \in SeedHours, m \in SeedMins, t \in {TICKS_PER_SEC - 2, TICKS_PER_SEC - 1} :
    Polling(h, m, SECS_PER_MIN - 1, t)

(* what no statement of the handler touches *)
HandlerFrame ==
  /\ UNCHANGED <<pc, field, arp_i, slip, presented, button>>
  /\ UNCHANGED <<TCNT1, timer_mode, ocie1a, ledvars, inputhist, seed>>

(* the interrupt is taken: the hardware clears the I flag *)
isr_enter ==
  /\ isr_pc = "idle"
  /\ IntEnabled
  /\ nticks < MaxInvocations
  /\ sreg_i' = FALSE
  /\ isr_pc' = "l308"
  /\ HandlerFrame
  /\ UNCHANGED <<clockvars, pending, nticks, nsets>>

(* if (++ticks >= 50) *)
isr_l308 ==
  /\ isr_pc = "l308"
  /\ ticks' = Inc8(ticks)
  /\ isr_pc' = IF TicksCarry(ticks) THEN "l309" ELSE "reti"
  /\ HandlerFrame
  /\ UNCHANGED <<display_flag, tod_secs, tod_mins, tod_hours, sreg_i, pending, nticks, nsets>>

(* ticks = 0; *)
isr_l309 ==
  /\ isr_pc = "l309"
  /\ ticks' = 0
  /\ isr_pc' = "l310"
  /\ HandlerFrame
  /\ UNCHANGED <<display_flag, tod_secs, tod_mins, tod_hours, sreg_i, pending, nticks, nsets>>

(* if (++tod_secs >= 60) *)
isr_l310 ==
  /\ isr_pc = "l310"
  /\ tod_secs' = Inc8(tod_secs)
  /\ isr_pc' = IF SecsCarry(tod_secs) THEN "l311" ELSE "reti"
  /\ HandlerFrame
  /\ UNCHANGED <<display_flag, ticks, tod_mins, tod_hours, sreg_i, pending, nticks, nsets>>

(* tod_secs = 0; *)
isr_l311 ==
  /\ isr_pc = "l311"
  /\ tod_secs' = 0
  /\ isr_pc' = "l312"
  /\ HandlerFrame
  /\ UNCHANGED <<display_flag, ticks, tod_mins, tod_hours, sreg_i, pending, nticks, nsets>>

(* display_flag = 1; *)
isr_l312 ==
  /\ isr_pc = "l312"
  /\ display_flag' = 1
  /\ pending' = TRUE
  /\ nsets' = nsets + 1
  /\ isr_pc' = "l313"
  /\ HandlerFrame
  /\ UNCHANGED <<ticks, tod_secs, tod_mins, tod_hours, sreg_i, nticks>>

(* if (++tod_mins >= 60) *)
isr_l313 ==
  /\ isr_pc = "l313"
  /\ tod_mins' = Inc8(tod_mins)
  /\ isr_pc' = IF MinsCarry(tod_mins) THEN "l314" ELSE "reti"
  /\ HandlerFrame
  /\ UNCHANGED <<display_flag, ticks, tod_secs, tod_hours, sreg_i, pending, nticks, nsets>>

(* tod_mins = 0; *)
isr_l314 ==
  /\ isr_pc = "l314"
  /\ tod_mins' = 0
  /\ isr_pc' = "l315"
  /\ HandlerFrame
  /\ UNCHANGED <<display_flag, ticks, tod_secs, tod_hours, sreg_i, pending, nticks, nsets>>

(* if (++tod_hours >= 13) *)
isr_l315 ==
  /\ isr_pc = "l315"
  /\ tod_hours' = Inc8(tod_hours)
  /\ isr_pc' = IF Inc8(tod_hours) >= HOURS_WRAP THEN "l316" ELSE "reti"
  /\ HandlerFrame
  /\ UNCHANGED <<display_flag, ticks, tod_secs, tod_mins, sreg_i, pending, nticks, nsets>>

(* tod_hours = 1; *)
isr_l316 ==
  /\ isr_pc = "l316"
  /\ tod_hours' = 1
  /\ isr_pc' = "reti"
  /\ HandlerFrame
  /\ UNCHANGED <<display_flag, ticks, tod_secs, tod_mins, sreg_i, pending, nticks, nsets>>

(* the handler returns: reti sets the I flag again *)
isr_reti ==
  /\ isr_pc = "reti"
  /\ sreg_i' = TRUE
  /\ isr_pc' = "idle"
  /\ nticks' = nticks + 1
  /\ HandlerFrame
  /\ UNCHANGED <<clockvars, pending, nsets>>

(* main reads display_flag; it executes only while the handler is not running *)
foreground_poll == isr_pc = "idle" /\ main_poll

NextHandler ==
  \/ isr_enter \/ isr_l308 \/ isr_l309 \/ isr_l310 \/ isr_l311 \/ isr_l312
  \/ isr_l313 \/ isr_l314 \/ isr_l315 \/ isr_l316 \/ isr_reti
  \/ foreground_poll

SpecHandler == InitHandler /\ [][NextHandler]_vars


(* ======================= properties ======================= *)

InRange(s) ==
  /\ s.ticks \in 0..(TICKS_PER_SEC - 1)
  /\ s.tod_secs \in 0..(SECS_PER_MIN - 1)
  /\ s.tod_mins \in 0..(MINS_PER_HOUR - 1)
  /\ s.tod_hours \in 1..HOURS_MAX

(* position of an in-range clock value in the 12-hour cycle, in ticks *)
TickIndex(s) ==
  (((s.tod_hours - 1) * MINS_PER_HOUR + s.tod_mins) * SECS_PER_MIN + s.tod_secs)
     * TICKS_PER_SEC + s.ticks

(* what sei() leaves is a state InitSeeded starts from *)
SeiLeavesArmed ==
  pc = "main_poll" =>
    (Armed(tod_hours, tod_mins) /\ tod_hours \in SeedHours /\ tod_mins \in SeedMins)

(* C1: from an in-range clock value one invocation of the handler yields   *)
(* exactly the next value of the cascading counter (the value one tick     *)
(* later in the 12-hour cycle, 12:59:59.49 being followed by 1:00:00.00),  *)
(* and it executes display_flag = 1 iff seconds carried into minutes.      *)
C1_TickIsSuccessor ==
  [][ (InRange(Clock) /\ nticks' = nticks + 1) =>
        LET k == (TickIndex(Clock) + 1) % CycleTicks
            carried == tod_secs = SECS_PER_MIN - 1 /\ ticks = TICKS_PER_SEC - 1
        IN  /\ ticks' = k % TICKS_PER_SEC
            /\ tod_secs' = (k \div TICKS_PER_SEC) % SECS_PER_MIN
            /\ tod_mins' = (k \div MinuteTicks) % MINS_PER_HOUR
            /\ tod_hours' = (k \div (MinuteTicks * MINS_PER_HOUR)) + 1
            /\ (nsets' = nsets + 1) = carried
            /\ (nsets' = nsets) = ~carried
            /\ display_flag' = (IF carried THEN 1 ELSE display_flag) ]_vars

(* 12:59:59.49 has been followed by 1:00:00.00, with the flag set *)
C1_Witness ==
  /\ seed = <<12, 59>> /\ nticks = MinuteTicks /\ nsets = 1
  /\ tod_hours = 1 /\ tod_mins = 0 /\ tod_secs = 0 /\ ticks = 0 /\ display_flag = 1

(* C2: once the interrupt is armed, ticks is in 0..49, seconds and minutes *)
(* in 0..59 and hours in 1..12, whatever was pressed during setup.         *)
C2_ArmedRanges ==
  IntEnabled =>
    /\ ticks \in 0..(TICKS_PER_SEC - 1)
    /\ tod_secs \in 0..(SECS_PER_MIN - 1)
    /\ tod_mins \in 0..(MINS_PER_HOUR - 1)
    /\ tod_hours \in 1..HOURS_MAX

(* C3: an hours attempt of c presses is accepted iff 1 <= c <= 12, and a   *)
(* rejected one is followed by exactly one led_flash(3) before the         *)
(* re-prompt.                                                              *)
C3_HoursAcceptedIff ==
  /\ pc = "sc_ok_hours" => presses \in 1..HOURS_MAX
  /\ pc = "sc_bad_hours" => presses \notin 1..HOURS_MAX
  /\ pc = "sc_retry_hours" => fb_log = <<3>>

ProgramStep ==
  \/ init_ports
  \/ sc_hours \/ sc_check_hours \/ sc_bad_hours \/ sc_retry_hours \/ sc_ok_hours
  \/ sc_mins \/ sc_check_mins \/ sc_bad_mins \/ sc_retry_mins \/ sc_ok_mins
  \/ sv_wait_press \/ sv_first_press \/ sv_loop_test \/ sv_button_test \/ sv_next_press
  \/ lf_test \/ lf_off \/ lf_next
  \/ delay_ms
  \/ init_timer \/ init_uart \/ sei

(* ---- the input protocol with a running processor, timer and user ---- *)

(* the user presses at most LivePresses times in one attempt *)
PressLive == presses < LivePresses /\ Press

NextLive == PressLive \/ Release \/ StopwatchAdvance \/ ProgramStep

(* the processor keeps executing, the stopwatch keeps counting, and a     *)
(* pressed button is let go (a press is counted at its release)           *)
SpecLive ==
  /\ Init /\ [][NextLive]_vars
  /\ WF_vars(ProgramStep) /\ WF_vars(StopwatchAdvance) /\ WF_vars(Release)

(* C4: a minutes attempt of c presses is accepted iff 0 <= c <= 59; an     *)
(* attempt without any press ends by the timeout (the program goes on      *)
(* while the button stays up) and is accepted with tod_mins = 0.           *)
C4_MinutesAcceptedIff ==
  /\ pc = "sc_ok_mins" => presses \in 0..MINS_MAX /\ tod_mins = presses
  /\ pc = "sc_bad_mins" => presses \notin 0..MINS_MAX
  /\ (field = "mins" /\ pc = "sv_press" /\ button = "up" /\ presses = 0)
       => ENABLED (ProgramStep \/ StopwatchAdvance)

C6_CycleReturnsToSeed ==
  (nticks > 0 /\ nticks % CycleTicks = 0) =>
    /\ tod_hours = seed[1] /\ tod_mins = seed[2] /\ tod_secs = 0 /\ ticks = 0
    /\ nsets = nticks \div MinuteTicks

NextMinute(hm) ==
  IF hm[2] < MINS_MAX THEN <<hm[1], hm[2] + 1>>
  ELSE <<(IF hm[1] >= HOURS_MAX THEN 1 ELSE hm[1] + 1), 0>>

(* C7: from a fresh seed (h, m, 0, 0) none of the first 2999 invocations   *)
(* sets the flag, the 3000th does, and the clock is then exactly one       *)
(* minute later with seconds = 0 and ticks = 0.                            *)
C7_OneMinute ==
  /\ nticks < MinuteTicks => (nsets = 0 /\ display_flag = 0 /\ <<tod_hours, tod_mins>> = seed)
  /\ nticks = MinuteTicks =>
       /\ nsets = 1 /\ display_flag = 1
       /\ <<tod_hours, tod_mins>> = NextMinute(seed)
       /\ tod_secs = 0 /\ ticks = 0

(* (11,7,0) has become (11,8,0) *)
C7_Witness ==
  /\ seed = <<11, 7>> /\ nticks = MinuteTicks
  /\ tod_hours = 11 /\ tod_mins = 8 /\ tod_secs = 0 /\ ticks = 0 /\ nsets = 1

(* C8: when the interrupt is armed (at sei), tod_hours and tod_mins are the *)
(* press counts of the accepted attempts and seconds and ticks are 0.      *)
C8_SeedIsPressCounts ==
  pc = "main_sei" =>
    /\ tod_hours = hcount /\ tod_mins = mcount
    /\ tod_secs = 0 /\ ticks = 0

(* C9: after a rejected attempt the count restarts from 0: the value       *)
(* accepted for a field is the number of presses of the last attempt only. *)
C9_LastAttemptOnly ==
  /\ (rejected /\ pc = "sc_ok_hours") => tod_hours = presses
  /\ (rejected /\ pc = "sc_ok_mins") => tod_mins = presses

SetVarPCs == {"sv_press", "sv_release", "sv_loop", "sv_btn", "sv_release2"}
AfterSetClock == pc \in {"main_init_timer", "main_init_uart", "main_sei"} \/ sreg_i

(* C10: the feedback of set_clock is 3* 1 3* 2: led_flash(1) and           *)
(* led_flash(2) are each called at most once, led_flash(1) first; the      *)
(* minutes acquisition starts after led_flash(1); no led_flash(3) follows  *)
(* led_flash(2); when set_clock has returned both have been called once.   *)
C10_FeedbackOrder ==
  /\ [](/\ nfb[1] <= 1 /\ nfb[2] <= nfb[1]
        /\ (field = "mins" /\ pc \in SetVarPCs) => (nfb[1] = 1 /\ nfb[2] = 0)
        /\ (field = "hours" /\ pc \in SetVarPCs) => nfb[1] = 0
        /\ AfterSetClock => (nfb[1] = 1 /\ nfb[2] = 1))
  /\ [][ /\ (fb_log' # fb_log /\ fb_log' # <<>>) =>
              LET e == fb_log'[Len(fb_log')] IN
                /\ e \in {1, 2, 3}
                /\ e = 3 => (nfb[2] = 0 /\ nfb' = nfb)
                /\ e = 1 => (nfb[1] = 0 /\ nfb[2] = 0 /\ nfb'[1] = 1)
                /\ e = 2 => (nfb[1] = 1 /\ nfb[2] = 0 /\ nfb'[2] = 1)
         /\ nfb' # nfb => fb_log' # fb_log ]_vars

(* set_clock has returned, a minutes attempt having been rejected *)
C10_Witness ==
  /\ pc = "main_init_timer" /\ rejected
  /\ nfb[1] = 1 /\ nfb[2] = 1 /\ hcount = 5 /\ mcount = 7

(* a rollover has been signalled and its presentation has not ended *)
RolloverInHand == sreg_i /\ (pc # "main_poll" \/ display_flag # 0)

(* C11: the hours and the minutes blinked in one presentation are the      *)
(* hours and minutes of the rollover that triggered it: from the rollover  *)
(* to the end of its presentation no invocation changes tod_hours or       *)
(* tod_mins, so both reads of the foreground see the same instant.         *)
C11_PresentedPairIsRollover ==
  /\ [](/\ Len(presented) >= 1 => presented[1] = tod_hours
        /\ Len(presented) = 2 => presented[2] = tod_mins)
  /\ [][RolloverInHand => (tod_hours' = tod_hours /\ tod_mins' = tod_mins)]_vars

(* 1:00 has been blinked after the rollover from 12:59 (or 0:59) *)
C11_Witness ==
  /\ pc = "main_clear" /\ presented = <<1, 0>> /\ tod_hours = 1 /\ tod_mins = 0
  /\ tod_secs > 0

(* C12: the foreground starts a presentation only for a rollover that the  *)
(* handler has signalled and that has not been presented yet, and starting *)
(* it consumes that rollover: presentations never outnumber the executions *)
(* of display_flag = 1, and after a presentation the poll finds the flag   *)
(* clear until the handler sets it again.                                  *)
C12_OnePresentationPerRollover ==
  /\ []((pc = "main_poll" /\ ~pending) => display_flag = 0)
  /\ [][(pc = "main_poll" /\ pc' # "main_poll") => (pending /\ ~pending')]_vars

(* the chime of the rollover to 11:08 is playing *)
C12_Witness ==
  /\ pc = "arp_on_wait" /\ arp_i = 0 /\ ~pending /\ display_flag = 1
  /\ tod_hours = 11 /\ tod_mins = 8

(* C13: display_flag goes from set to clear only by the last step of a     *)
(* presentation (main at display_flag = 0, chime, hours and minutes blinks *)
(* done); no step of the handler and no other step of the foreground       *)
(* clears it.                                                              *)
C13_ClearedOnlyAtEnd ==
  [][(display_flag # 0 /\ display_flag' = 0) =>
       /\ pc = "main_clear" /\ pc' = "main_poll"
       /\ Len(presented) = 2 /\ lf_ret = "none" /\ dly = 0 /\ ~led]_vars

(* the presentation of 11:08 is about to clear the flag *)
C13_Witness ==
  /\ pc = "main_clear" /\ display_flag = 1 /\ presented = <<11, 8>>

SetClockPCs == {"sc_hours", "sc_check_hours", "sc_bad_hours", "sc_retry_hours", "sc_ok_hours",
                "sc_mins", "sc_check_mins", "sc_bad_mins", "sc_retry_mins", "sc_ok_mins"}
LedFlashPCs == {"lf_test", "lf_on_wait", "lf_off_wait"}

(* main has not executed sei() yet *)
BeforeSei ==
  \/ pc \in {"main_init_ports", "main_init_timer", "main_init_uart", "main_sei"}
  \/ pc \in SetClockPCs \cup SetVarPCs
  \/ pc \in LedFlashPCs /\ lf_ret \in SetClockPCs \cup {"main_init_timer"}

(* C15: until main has executed sei() the handler has not run: through     *)
(* set_clock, set_var (stopwatch running, feedback blinking), init_timer   *)
(* and init_uart, ticks and tod_secs are 0 and display_flag is clear.      *)
C15_NoTickBeforeSei ==
  BeforeSei => (ticks = 0 /\ tod_secs = 0 /\ display_flag = 0 /\ ~pending)

(* 11:07 entered, the timer reprogrammed and its interrupt unmasked, sei() next *)
C15_Witness ==
  /\ pc = "main_sei" /\ tod_hours = 11 /\ tod_mins = 7
  /\ timer_mode = "ctc" /\ ocie1a /\ ~sreg_i /\ ticks = 0

(* C18: once sei() has been executed every step of the foreground (poll,   *)
(* chime, led_flash, pause, display_flag = 0) leaves ticks, tod_secs,      *)
(* tod_mins and tod_hours unchanged; of the shared variables it writes     *)
(* display_flag only, and only to clear it.                                *)
C18_ForegroundFrame ==
  [][(~BeforeSei /\ pc' # pc) =>
       /\ UNCHANGED <<ticks, tod_secs, tod_mins, tod_hours>>
       /\ display_flag' # display_flag => display_flag' = 0]_vars

(* the third blink of the minutes of 11:08 is lit, 20 s after the rollover *)
C18_Witness ==
  /\ pc = "lf_on_wait" /\ lf_ret = "main_clear" /\ lf_i = 2 /\ led
  /\ tod_hours = 11 /\ tod_mins = 8 /\ tod_secs >= 7

(* the statements of the handler taken together are TIMER1_COMPA_vect *)
HandlerStatementsAgree ==
  (isr_pc = "idle" /\ nticks = 1) =>
    LET r == TIMER1_COMPA_vect([ticks |-> TICKS_PER_SEC - 1, tod_secs |-> SECS_PER_MIN - 1,
                                tod_mins |-> seed[2], tod_hours |-> seed[1],
                                display_flag |-> 0])
    IN  \/ ticks = TICKS_PER_SEC - 1
        \/ Clock = [ticks |-> r.ticks, tod_secs |-> r.tod_secs, tod_mins |-> r.tod_mins,
                    tod_hours |-> r.tod_hours, display_flag |-> r.display_flag]

(* C14 as claimed: whenever display_flag is set, also inside the handler,  *)
(* the cascading updates of that tick have been written (tod_secs reset,   *)
(* tod_mins and tod_hours at their values after the rollover).             *)
C14_FlagAfterUpdates ==
  display_flag = 1 => (tod_secs = 0 /\ <<tod_hours, tod_mins>> = NextMinute(seed))

(* C14 amended: the handler writes display_flag = 1 after the reset of     *)
(* tod_secs and before it touches tod_mins and tod_hours; whenever the     *)
(* handler is not running (the only time main executes) and the flag is    *)
(* set, tod_mins and tod_hours hold the values after the rollover.         *)
C14_FlagBeforeMinutes ==
  /\ []((isr_pc = "idle" /\ display_flag = 1) =>
          (tod_secs = 0 /\ <<tod_hours, tod_mins>> = NextMinute(seed)))
  /\ [][display_flag' # display_flag =>
          /\ isr_pc = "l312" /\ display_flag' = 1
          /\ tod_secs = 0 /\ <<tod_hours, tod_mins>> = seed]_vars

(* main has seen the flag of the rollover 12:59 -> 1:00 *)
C14_Witness ==
  /\ pc = "arp_note" /\ isr_pc = "idle" /\ display_flag = 1
  /\ seed = <<12, 59>> /\ tod_hours = 1 /\ tod_mins = 0 /\ tod_secs = 0

(* the field set_var is counting in *)
FieldValue == IF field = "hours" THEN tod_hours ELSE tod_mins

(* C16: every confirmed press adds exactly one to the count and resets the *)
(* stopwatch to 0; the loop of set_var goes on to read the button only     *)
(* when it has read the stopwatch strictly below 23460, and the attempt    *)
(* ends only when it has read 23460 or more.                               *)
C16_TimeoutFromLastEdge ==
  [][/\ presses' = presses + 1 => (TCNT1' = 0 /\ FieldValue' = FieldValue + 1)
     /\ (pc = "sv_loop" /\ pc' = "sv_btn") => TCNT1 < TIMEOUT
     /\ (pc # "sv_release2" /\ pc' = "sv_release2") => (pc = "sv_btn" /\ button = "down")
     /\ (pc = "sv_loop" /\ pc' \in {"sc_check_hours", "sc_check_mins"}) =>
          (TCNT1 >= TIMEOUT /\ button' = button /\ FieldValue' = FieldValue)]_vars

(* C19: the value set_clock validates is the press count of the attempt:   *)
(* for every count c (up to MaxPresses) the attempt is accepted iff c is   *)
(* at most the field's maximum, and an accepted attempt seeds c.           *)
C19_DecisionIsOfCount ==
  /\ pc = "sc_check_hours" => tod_hours = presses
  /\ pc = "sc_check_mins" => tod_mins = presses
  /\ pc = "sc_ok_hours" => presses <= HOURS_MAX
  /\ pc = "sc_ok_mins" => presses <= MINS_MAX
  /\ pc = "sc_bad_hours" => presses > HOURS_MAX
  /\ pc = "sc_bad_mins" => presses > MINS_MAX

SetVarLoop == pc \in {"sv_loop", "sv_btn"}

(* an in-range count has been entered for the field and the button is up *)
HoursEntered ==
  field = "hours" /\ SetVarLoop /\ presses \in 1..HOURS_MAX /\ button = "up"
MinsEntered ==
  /\ field = "mins" /\ button = "up"
  /\ \/ SetVarLoop /\ presses \in 1..MINS_MAX
     \/ pc = "sv_press" /\ presses = 0

(* C17: whatever was rejected before, once an in-range count has been      *)
(* entered for hours (1..12) and no press follows while hours is being     *)
(* set, set_clock goes on to the minutes; once an in-range count has been  *)
(* entered for minutes (0..59, 0 being no press at all) and no press       *)
(* follows, set_clock returns and the interrupt is armed.                  *)
C17_ProtocolCompletes ==
  /\ []((HoursEntered /\ [](field = "hours" => button = "up")) => <>(pc = "sc_mins"))
  /\ []((MinsEntered /\ [](field = "mins" => button = "up")) => <>IntEnabled)

====
